---------------------------- MODULE Spec2Model ----------------------------
(***************************************************************************)
(* A model of the interior-mutability primitives of the crate:             *)
(*   cell.rs    Cell<T>     a container read and written by value          *)
(*   refcell.rs RefCell<T>  a borrow cell with the guards Ref and RefMut   *)
(*   rc.rs      Rc<T>       a single-threaded reference-counted pointer    *)
(*                                                                         *)
(* Guards and Rc handles live in numbered slots; a slot holding NULL holds *)
(* no handle.  Heap blocks are named by allocation identity, so a block    *)
(* that was deallocated is never handed out again under the same name.     *)
(* usize is modelled with UsizeBits bits; the number of handle slots stays *)
(* below 2^UsizeBits, as the number of live handles of a program stays     *)
(* below the size of its address space.                                    *)
(***************************************************************************)
EXTENDS Integers, FiniteSets, Sequences, TLC

\* ------------------------------------------------------------------ bounds
NumCells  == 2      \* RefCells the program constructs
MaxRefs   == 2      \* slots for live Ref guards
MaxMuts   == 2      \* slots for live RefMut guards
MaxBlocks == 2      \* calls of Rc::new
MaxRcs    == 3      \* slots for live Rc handles
NumValues == 2      \* distinct payload values
UsizeBits == 3      \* width of usize in the model
NumPlain  == 3      \* Cells the program constructs outside RefCell and Rc

Cells    == 1..NumCells
RefIds   == 1..MaxRefs
MutIds   == 1..MaxMuts
Blocks   == 1..MaxBlocks
RcIds    == 1..MaxRcs
Values   == 1..NumValues
Plains   == 1..NumPlain
NULL     == 0
UsizeMod == 2 ^ UsizeBits
UsizeMax == UsizeMod - 1

VARIABLES
    cells,            \* constructed RefCells: cell -> [val, state]
    refs,             \* Ref slot -> the RefCell its `reference` points at, or NULL
    muts,             \* RefMut slot -> the RefCell its `reference` points at, or NULL
    heap,             \* blocks ever allocated: block -> [alloc, val, ref_count]
    rcs,              \* Rc slot -> the block its `inner` points at, or NULL
    dealloc_count,    \* block -> number of times Box::from_raw released it
    ub,               \* an operation read or released a deallocated block
    overflow_checks,  \* build profile: arithmetic overflow panics (TRUE) or wraps
    ret,              \* the last operation and what it returned
    plain,            \* constructed Cells: cell -> [val]
    stored            \* Cell -> the value last given to Cell::new or Cell::set

vars == <<cells, refs, muts, heap, rcs, dealloc_count, ub, overflow_checks, ret,
          plain, stored>>

refcell_vars == <<cells, refs, muts>>
rc_vars      == <<heap, rcs, dealloc_count, ub>>
cell_vars    == <<plain, stored>>

\* ------------------------------------------------------------- usize
\* a + 1 on usize: [panic |-> overflow detected, v |-> the value produced]
usize_inc(a, checks) ==
    IF a + 1 > UsizeMax
    THEN [panic |-> checks, v |-> (a + 1) % UsizeMod]
    ELSE [panic |-> FALSE, v |-> a + 1]

\* a - 1 on usize
usize_dec(a, checks) ==
    IF a - 1 < 0
    THEN [panic |-> checks, v |-> (a - 1 + UsizeMod) % UsizeMod]
    ELSE [panic |-> FALSE, v |-> a - 1]

\* ------------------------------------------------------------- cell.rs
Cell_new(val) == [val |-> val]

\* a set that leaves the interior as it was
Cell_set_keep(self, val) == self

Cell_set(self, val) == [self EXCEPT !.val = val]

Cell_get(self) == self.val

\* ------------------------------------------------------------- refcell.rs
\* enum RefState { None, Shared(usize), Exclusive }
RefState_None      == [tag |-> "None", n |-> 0]
RefState_Shared(n) == [tag |-> "Shared", n |-> n]
RefState_Exclusive == [tag |-> "Exclusive", n |-> 0]

\* the slot a newly issued guard or handle is put in
FreeSlot(slots) == CHOOSE i \in DOMAIN slots :
                       /\ slots[i] = NULL
                       /\ \A j \in DOMAIN slots : slots[j] = NULL => i <= j

HasFreeSlot(slots) == \E i \in DOMAIN slots : slots[i] = NULL

\* a borrow that treats an exclusively borrowed cell as unborrowed
borrow_match_exclusive(st, checks) ==
    CASE st.tag \in {"None", "Exclusive"} ->
             [some |-> TRUE, panic |-> FALSE, state |-> RefState_Shared(1)]
      [] st.tag = "Shared" ->
             [some |-> TRUE, panic |-> FALSE, state |-> RefState_Shared(st.n + 1)]

\* a borrow that issues a Ref on a shared cell without counting it
borrow_match_uncounted(st, checks) ==
    CASE st.tag = "None" ->
             [some |-> TRUE, panic |-> FALSE, state |-> RefState_Shared(1)]
      [] st.tag = "Shared" ->
             [some |-> TRUE, panic |-> FALSE, state |-> st]
      [] st.tag = "Exclusive" ->
             [some |-> FALSE, panic |-> FALSE, state |-> st]

\* The match of RefCell::borrow on the state read:
\* [some |-> a Ref is returned, panic, state |-> the state stored]
borrow_match(st, checks) ==
    CASE st.tag = "None" ->
             [some |-> TRUE, panic |-> FALSE, state |-> RefState_Shared(1)]
      [] st.tag = "Shared" ->
             LET s == usize_inc(st.n, checks) IN
             IF s.panic
             THEN [some |-> FALSE, panic |-> TRUE, state |-> st]
             ELSE [some |-> TRUE, panic |-> FALSE, state |-> RefState_Shared(s.v)]
      [] st.tag = "Exclusive" ->
             [some |-> FALSE, panic |-> FALSE, state |-> st]

\* a borrow_mut whose refusal on a shared cell clears the borrow state
borrow_mut_match_clear(st) ==
    CASE st.tag = "None" ->
             [some |-> TRUE, panic |-> FALSE, state |-> RefState_Exclusive]
      [] st.tag = "Shared" ->
             [some |-> FALSE, panic |-> FALSE, state |-> RefState_None]
      [] st.tag = "Exclusive" ->
             [some |-> FALSE, panic |-> FALSE, state |-> st]

\* borrow_mut that looks only for an exclusive borrow
borrow_mut_match_shared(st) ==
    IF st.tag = "Exclusive"
    THEN [some |-> FALSE, panic |-> FALSE, state |-> st]
    ELSE [some |-> TRUE, panic |-> FALSE, state |-> RefState_Exclusive]

\* The match of RefCell::borrow_mut on the state read
borrow_mut_match(st) ==
    CASE st.tag = "None" ->
             [some |-> TRUE, panic |-> FALSE, state |-> RefState_Exclusive]
      [] st.tag = "Shared" ->
             [some |-> FALSE, panic |-> FALSE, state |-> st]
      [] st.tag = "Exclusive" ->
             [some |-> FALSE, panic |-> FALSE, state |-> st]

\* a Ref drop that ends the shared borrow whatever its count
Ref_drop_match_none(st, checks) ==
    CASE st.tag \in {"None", "Exclusive"} -> [panic |-> TRUE, state |-> st]
      [] st.tag = "Shared" -> [panic |-> FALSE, state |-> RefState_None]

\* a Ref drop that leaves the count of a shared borrow as it was
Ref_drop_match_keep(st, checks) ==
    CASE st.tag \in {"None", "Exclusive"} -> [panic |-> TRUE, state |-> st]
      [] st.tag = "Shared" /\ st.n = 1 -> [panic |-> FALSE, state |-> RefState_None]
      [] st.tag = "Shared" /\ st.n # 1 -> [panic |-> FALSE, state |-> st]

\* The match of <Ref as Drop>::drop on the state read
Ref_drop_match(st, checks) ==
    CASE st.tag \in {"None", "Exclusive"} ->
             [panic |-> TRUE, state |-> st]                    \* unreachable!()
      [] st.tag = "Shared" /\ st.n = 1 ->
             [panic |-> FALSE, state |-> RefState_None]
      [] st.tag = "Shared" /\ st.n # 1 ->
             LET s == usize_dec(st.n, checks) IN
             IF s.panic
             THEN [panic |-> TRUE, state |-> st]
             ELSE [panic |-> FALSE, state |-> RefState_Shared(s.v)]

\* a RefMut drop that leaves the cell exclusively borrowed
RefMut_drop_match_keep(st) ==
    CASE st.tag \in {"Shared", "None"} -> [panic |-> TRUE, state |-> st]
      [] st.tag = "Exclusive" -> [panic |-> FALSE, state |-> st]

\* The match of <RefMut as Drop>::drop on the state read
RefMut_drop_match(st) ==
    CASE st.tag \in {"Shared", "None"} ->
             [panic |-> TRUE, state |-> st]                    \* unreachable!()
      [] st.tag = "Exclusive" ->
             [panic |-> FALSE, state |-> RefState_None]

\* the record of a call: the operation, the cell or block it acted on, its
\* argument, the kind of result and the value or slot returned
Result(op, on, arg, res, val) ==
    [op |-> op, on |-> on, arg |-> arg, res |-> res, val |-> val]

\* a constructor that starts the cell as shared by nobody
RefCell_new_shared0(c, val) ==
    /\ c \notin DOMAIN cells
    /\ \A d \in Cells : d < c => d \in DOMAIN cells
    /\ cells' = cells @@ (c :> [val |-> val, state |-> Cell_new(RefState_Shared(0))])
    /\ ret' = Result("RefCell::new", c, val, "unit", NULL)
    /\ UNCHANGED <<refs, muts, rc_vars, overflow_checks, cell_vars>>

\* RefCell::new(val), naming the new cell c
RefCell_new(c, val) ==
    /\ c \notin DOMAIN cells
    /\ \A d \in Cells : d < c => d \in DOMAIN cells
    /\ cells' = cells @@ (c :> [val |-> val, state |-> Cell_new(RefState_None)])
    /\ ret' = Result("RefCell::new", c, val, "unit", NULL)
    /\ UNCHANGED <<refs, muts, rc_vars, overflow_checks, cell_vars>>

\* c.borrow()
RefCell_borrow(c) ==
    /\ c \in DOMAIN cells
    /\ LET m == borrow_match(Cell_get(cells[c].state), overflow_checks) IN
       /\ m.some => HasFreeSlot(refs)
       /\ cells' = [cells EXCEPT ![c].state = Cell_set(@, m.state)]
       /\ IF m.some
          THEN /\ refs' = [refs EXCEPT ![FreeSlot(refs)] = c]
               /\ ret' = Result("borrow", c, NULL, "Some", FreeSlot(refs))
          ELSE /\ refs' = refs
               /\ ret' = Result("borrow", c, NULL, IF m.panic THEN "panic" ELSE "None", NULL)
    /\ UNCHANGED <<muts, rc_vars, overflow_checks, cell_vars>>

\* c.borrow_mut()
RefCell_borrow_mut(c) ==
    /\ c \in DOMAIN cells
    /\ LET m == borrow_mut_match(Cell_get(cells[c].state)) IN
       /\ m.some => HasFreeSlot(muts)
       /\ cells' = [cells EXCEPT ![c].state = Cell_set(@, m.state)]
       /\ IF m.some
          THEN /\ muts' = [muts EXCEPT ![FreeSlot(muts)] = c]
               /\ ret' = Result("borrow_mut", c, NULL, "Some", FreeSlot(muts))
          ELSE /\ muts' = muts
               /\ ret' = Result("borrow_mut", c, NULL, "None", NULL)
    /\ UNCHANGED <<refs, rc_vars, overflow_checks, cell_vars>>

\* *r for the Ref in slot r
Ref_deref(r) ==
    /\ refs[r] # NULL
    /\ ret' = Result("Ref::deref", refs[r], NULL, "value", cells[refs[r]].val)
    /\ UNCHANGED <<refcell_vars, rc_vars, overflow_checks, cell_vars>>

\* a Ref drop whose borrow state is one field shared by every RefCell
Ref_drop_static(r) ==
    /\ refs[r] # NULL
    /\ LET c == refs[r]
           m == Ref_drop_match(Cell_get(cells[c].state), overflow_checks) IN
       /\ cells' = [d \in DOMAIN cells |->
                       [cells[d] EXCEPT !.state = Cell_set(@, m.state)]]
       /\ ret' = Result("Ref::drop", c, NULL, IF m.panic THEN "panic" ELSE "unit", r)
    /\ refs' = [refs EXCEPT ![r] = NULL]
    /\ UNCHANGED <<muts, rc_vars, overflow_checks, cell_vars>>

\* the Ref in slot r goes out of scope
Ref_drop(r) ==
    /\ refs[r] # NULL
    /\ LET c == refs[r]
           m == Ref_drop_match(Cell_get(cells[c].state), overflow_checks) IN
       /\ cells' = [cells EXCEPT ![c].state = Cell_set(@, m.state)]
       /\ ret' = Result("Ref::drop", c, NULL, IF m.panic THEN "panic" ELSE "unit", r)
    /\ refs' = [refs EXCEPT ![r] = NULL]
    /\ UNCHANGED <<muts, rc_vars, overflow_checks, cell_vars>>

\* *m read for the RefMut in slot m
RefMut_deref(m) ==
    /\ muts[m] # NULL
    /\ ret' = Result("RefMut::deref", muts[m], NULL, "value", cells[muts[m]].val)
    /\ UNCHANGED <<refcell_vars, rc_vars, overflow_checks, cell_vars>>

\* a write through a RefMut that never reaches the cell
RefMut_deref_mut_lost(m, val) ==
    /\ muts[m] # NULL
    /\ ret' = Result("RefMut::deref_mut", muts[m], val, "unit", NULL)
    /\ UNCHANGED <<refcell_vars, rc_vars, overflow_checks, cell_vars>>

\* *m = val for the RefMut in slot m
RefMut_deref_mut(m, val) ==
    /\ muts[m] # NULL
    /\ cells' = [cells EXCEPT ![muts[m]].val = val]
    /\ ret' = Result("RefMut::deref_mut", muts[m], val, "unit", NULL)
    /\ UNCHANGED <<refs, muts, rc_vars, overflow_checks, cell_vars>>

\* the RefMut in slot m goes out of scope
RefMut_drop(m) ==
    /\ muts[m] # NULL
    /\ LET c == muts[m]
           d == RefMut_drop_match(Cell_get(cells[c].state)) IN
       /\ cells' = [cells EXCEPT ![c].state = Cell_set(@, d.state)]
       /\ ret' = Result("RefMut::drop", c, NULL, IF d.panic THEN "panic" ELSE "unit", m)
    /\ muts' = [muts EXCEPT ![m] = NULL]
    /\ UNCHANGED <<refs, rc_vars, overflow_checks, cell_vars>>

\* ------------------------------------------------------------- rc.rs
\* What `unsafe { &*self.inner }` can observe of block b: the RcInner while the
\* block is allocated, any bit pattern once it has been deallocated.
RcInner_read(b) ==
    IF heap[b].alloc
    THEN {heap[b]}
    ELSE {[alloc |-> FALSE, val |-> v, ref_count |-> Cell_new(n)] :
              v \in Values, n \in 0..UsizeMax}

\* a drop that releases the block one handle early
Rc_drop_match_early(n, checks) ==
    IF n <= 2
    THEN [free |-> TRUE, panic |-> FALSE, count |-> n]
    ELSE [free |-> FALSE, panic |-> FALSE, count |-> n - 1]

\* a drop that takes two off a count above 2
Rc_drop_match_two(n, checks) ==
    IF n = 1
    THEN [free |-> TRUE, panic |-> FALSE, count |-> n]
    ELSE [free |-> FALSE, panic |-> FALSE, count |-> IF n > 2 THEN n - 2 ELSE n - 1]

\* a drop that releases the block only at a count of 0
Rc_drop_match_leak(n, checks) ==
    IF n = 0
    THEN [free |-> TRUE, panic |-> FALSE, count |-> n]
    ELSE [free |-> FALSE, panic |-> FALSE, count |-> n - 1]

\* The match of <Rc as Drop>::drop on the count read:
\* [free |-> the block is released, panic, count |-> the count stored]
Rc_drop_match(n, checks) ==
    IF n = 1
    THEN [free |-> TRUE, panic |-> FALSE, count |-> n]
    ELSE LET s == usize_dec(n, checks) IN
         IF s.panic
         THEN [free |-> FALSE, panic |-> TRUE, count |-> n]
         ELSE [free |-> FALSE, panic |-> FALSE, count |-> s.v]

\* a clone that counts the new handle twice
Rc_clone_count_two(n, checks) == [panic |-> FALSE, v |-> n + 2]

\* a clone that stores the count it read
Rc_clone_count_same(n, checks) == [panic |-> FALSE, v |-> n]

\* the count Rc::clone stores for the count read
Rc_clone_count(n, checks) == usize_inc(n, checks)

\* Rc::new(val): Box::new and Box::into_raw, naming the new block b
Rc_new(b, val) ==
    /\ ~ub
    /\ b \notin DOMAIN heap
    /\ \A d \in Blocks : d < b => d \in DOMAIN heap
    /\ HasFreeSlot(rcs)
    /\ heap' = heap @@ (b :> [alloc |-> TRUE, val |-> val, ref_count |-> Cell_new(1)])
    /\ rcs' = [rcs EXCEPT ![FreeSlot(rcs)] = b]
    /\ ret' = Result("Rc::new", b, val, "Rc", FreeSlot(rcs))
    /\ UNCHANGED <<refcell_vars, dealloc_count, ub, overflow_checks, cell_vars>>

\* a strong_count that counts its own look at the block
Rc_strong_count_counted(h) ==
    /\ ~ub
    /\ rcs[h] # NULL
    /\ heap[rcs[h]].alloc
    /\ heap' = [heap EXCEPT ![rcs[h]].ref_count =
                    Cell_set(@, (Cell_get(@) + 1) % UsizeMod)]
    /\ ret' = Result("Rc::strong_count", rcs[h], NULL, "value",
                     Cell_get(heap'[rcs[h]].ref_count))
    /\ UNCHANGED <<refcell_vars, rcs, dealloc_count, ub, overflow_checks, cell_vars>>

\* Rc::strong_count(&h) for the handle in slot h
Rc_strong_count(h) ==
    /\ ~ub
    /\ rcs[h] # NULL
    /\ \E inner \in RcInner_read(rcs[h]) :
           ret' = Result("Rc::strong_count", rcs[h], NULL, "value", Cell_get(inner.ref_count))
    /\ ub' = ~heap[rcs[h]].alloc
    /\ UNCHANGED <<refcell_vars, heap, rcs, dealloc_count, overflow_checks, cell_vars>>

\* Rc::clone(&h) for the handle in slot h
Rc_clone(h) ==
    /\ ~ub
    /\ rcs[h] # NULL
    /\ \E inner \in RcInner_read(rcs[h]) :
           LET b == rcs[h]
               s == Rc_clone_count(Cell_get(inner.ref_count), overflow_checks) IN
           IF s.panic
           THEN /\ ret' = Result("Rc::clone", b, NULL, "panic", NULL)
                /\ UNCHANGED <<heap, rcs>>
           ELSE /\ HasFreeSlot(rcs)
                /\ heap' = [heap EXCEPT ![b].ref_count = Cell_set(@, s.v)]
                /\ rcs' = [rcs EXCEPT ![FreeSlot(rcs)] = b]
                /\ ret' = Result("Rc::clone", b, NULL, "Rc", FreeSlot(rcs))
    /\ ub' = ~heap[rcs[h]].alloc
    /\ UNCHANGED <<refcell_vars, dealloc_count, overflow_checks, cell_vars>>

\* *h for the handle in slot h
Rc_deref(h) ==
    /\ ~ub
    /\ rcs[h] # NULL
    /\ \E inner \in RcInner_read(rcs[h]) :
           ret' = Result("Rc::deref", rcs[h], NULL, "value", inner.val)
    /\ ub' = ~heap[rcs[h]].alloc
    /\ UNCHANGED <<refcell_vars, heap, rcs, dealloc_count, overflow_checks, cell_vars>>

\* the handle in slot h goes out of scope
Rc_drop(h) ==
    /\ ~ub
    /\ rcs[h] # NULL
    /\ \E inner \in RcInner_read(rcs[h]) :
           LET b == rcs[h]
               m == Rc_drop_match(Cell_get(inner.ref_count), overflow_checks) IN
           /\ IF m.free
              THEN /\ heap' = [heap EXCEPT ![b].alloc = FALSE]
                   /\ dealloc_count' = [dealloc_count EXCEPT ![b] = @ + 1]
              ELSE /\ heap' = [heap EXCEPT ![b].ref_count = Cell_set(@, m.count)]
                   /\ dealloc_count' = dealloc_count
           /\ ret' = Result("Rc::drop", b, NULL, IF m.panic THEN "panic" ELSE "unit", h)
    /\ rcs' = [rcs EXCEPT ![h] = NULL]
    /\ ub' = ~heap[rcs[h]].alloc
    /\ UNCHANGED <<refcell_vars, overflow_checks, cell_vars>>

\* ------------------------------------------------------------- cell.rs, calls
\* let p = Cell::new(val)
Cell_new_call(p, val) ==
    /\ p \notin DOMAIN plain
    /\ \A q \in Plains : q < p => q \in DOMAIN plain
    /\ plain' = plain @@ (p :> Cell_new(val))
    /\ stored' = stored @@ (p :> val)
    /\ ret' = Result("Cell::new", p, val, "unit", NULL)
    /\ UNCHANGED <<refcell_vars, rc_vars, overflow_checks>>

\* p.set(val)
Cell_set_call(p, val) ==
    /\ p \in DOMAIN plain
    /\ plain' = [plain EXCEPT ![p] = Cell_set(@, val)]
    /\ stored' = [stored EXCEPT ![p] = val]
    /\ ret' = Result("Cell::set", p, val, "unit", NULL)
    /\ UNCHANGED <<refcell_vars, rc_vars, overflow_checks>>

\* p.get()
Cell_get_call(p) ==
    /\ p \in DOMAIN plain
    /\ ret' = Result("Cell::get", p, NULL, "value", Cell_get(plain[p]))
    /\ UNCHANGED <<refcell_vars, rc_vars, overflow_checks, cell_vars>>

\* ------------------------------------------------------------- specification
Init ==
    /\ cells = <<>>
    /\ refs = [r \in RefIds |-> NULL]
    /\ muts = [m \in MutIds |-> NULL]
    /\ heap = <<>>
    /\ rcs = [h \in RcIds |-> NULL]
    /\ dealloc_count = [b \in Blocks |-> 0]
    /\ ub = FALSE
    /\ overflow_checks \in BOOLEAN
    /\ ret = Result("none", NULL, NULL, "unit", NULL)
    /\ plain = <<>>
    /\ stored = <<>>

NextRefCell ==
    \/ \E c \in Cells, v \in Values : RefCell_new(c, v)
    \/ \E c \in Cells : RefCell_borrow(c)
    \/ \E c \in Cells : RefCell_borrow_mut(c)
    \/ \E r \in RefIds : Ref_deref(r)
    \/ \E r \in RefIds : Ref_drop(r)
    \/ \E m \in MutIds : RefMut_deref(m)
    \/ \E m \in MutIds, v \in Values : RefMut_deref_mut(m, v)
    \/ \E m \in MutIds : RefMut_drop(m)

SpecRefCell == Init /\ [][NextRefCell]_vars

NextRc ==
    \/ \E b \in Blocks, v \in Values : Rc_new(b, v)
    \/ \E h \in RcIds : Rc_strong_count(h)
    \/ \E h \in RcIds : Rc_clone(h)
    \/ \E h \in RcIds : Rc_deref(h)
    \/ \E h \in RcIds : Rc_drop(h)

SpecRc == Init /\ [][NextRc]_vars

NextCell ==
    \/ \E p \in Plains, v \in Values : Cell_new_call(p, v)
    \/ \E p \in Plains, v \in Values : Cell_set_call(p, v)
    \/ \E p \in Plains : Cell_get_call(p)

SpecCell == Init /\ [][NextCell]_vars


\* ------------------------------------------------------------- leaked handles
\* A caller may discard a guard or a handle without running its drop
\* (std::mem::forget, safe code): the slot is emptied and nothing else happens.
Ref_forget(r) ==
    /\ refs[r] # NULL
    /\ refs' = [refs EXCEPT ![r] = NULL]
    /\ ret' = Result("Ref::forget", refs[r], NULL, "unit", r)
    /\ UNCHANGED <<cells, muts, rc_vars, overflow_checks, cell_vars>>

RefMut_forget(m) ==
    /\ muts[m] # NULL
    /\ muts' = [muts EXCEPT ![m] = NULL]
    /\ ret' = Result("RefMut::forget", muts[m], NULL, "unit", m)
    /\ UNCHANGED <<cells, refs, rc_vars, overflow_checks, cell_vars>>

Rc_forget(h) ==
    /\ ~ub
    /\ rcs[h] # NULL
    /\ rcs' = [rcs EXCEPT ![h] = NULL]
    /\ ret' = Result("Rc::forget", rcs[h], NULL, "unit", h)
    /\ UNCHANGED <<refcell_vars, heap, dealloc_count, ub, overflow_checks, cell_vars>>

NextRefCellLeak ==
    \/ NextRefCell
    \/ \E r \in RefIds : Ref_forget(r)
    \/ \E m \in MutIds : RefMut_forget(m)

SpecRefCellLeak == Init /\ [][NextRefCellLeak]_vars

NextRcLeak ==
    \/ NextRc
    \/ \E h \in RcIds : Rc_forget(h)

SpecRcLeak == Init /\ [][NextRcLeak]_vars

\* A run of the crate uses one of its three types, as each of its tests does;
\* the types share no state.
OnlyRefCell == heap = <<>> /\ plain = <<>>
OnlyRc      == cells = <<>> /\ plain = <<>>
OnlyCell    == cells = <<>> /\ heap = <<>>

NextCrate ==
    \/ OnlyRefCell /\ NextRefCell
    \/ OnlyRc /\ NextRc
    \/ OnlyCell /\ NextCell

SpecCrate == Init /\ [][NextCrate]_vars

\* ------------------------------------------------------------- properties
State(c)    == Cell_get(cells[c].state)
LiveRefs(c) == Cardinality({r \in RefIds : refs[r] = c})
LiveMuts(c) == Cardinality({m \in MutIds : muts[m] = c})
LiveRcs(b)  == Cardinality({h \in RcIds : rcs[h] = b})
Count(b)    == Cell_get(heap[b].ref_count)

\* C1: on every RefCell at most one RefMut is live, and while a RefMut is live
\* no Ref is live.
C1_Exclusivity ==
    \A c \in DOMAIN cells :
        /\ LiveMuts(c) <= 1
        /\ LiveMuts(c) = 1 => LiveRefs(c) = 0

\* borrow_mut was just refused on a cell with two live Refs
C1_Witness ==
    /\ ret.op = "borrow_mut" /\ ret.res = "None"
    /\ LiveRefs(ret.on) = 2 /\ LiveMuts(ret.on) = 0

\* C2: the stored RefState is the exact population of live guards: None iff
\* none is live, Shared(n) iff n >= 1 Refs and no RefMut are live, Exclusive
\* iff one RefMut and no Ref is live; Shared(0) never occurs.
C2_StateIsPopulation ==
    \A c \in DOMAIN cells :
        /\ State(c) = RefState_None <=> (LiveRefs(c) = 0 /\ LiveMuts(c) = 0)
        /\ State(c) = RefState_Exclusive <=> (LiveRefs(c) = 0 /\ LiveMuts(c) = 1)
        /\ \A n \in 0..UsizeMax :
               State(c) = RefState_Shared(n)
                   <=> (n >= 1 /\ LiveRefs(c) = n /\ LiveMuts(c) = 0)

\* one cell is shared by two Refs while another is borrowed exclusively
C2_Witness ==
    \E c, d \in DOMAIN cells :
        /\ State(c) = RefState_Shared(2) /\ LiveRefs(c) = 2
        /\ State(d) = RefState_Exclusive /\ LiveMuts(d) = 1

C4_FreedExactlyOnce ==
    /\ ~ub
    /\ \A b \in DOMAIN heap :
           /\ dealloc_count[b] <= 1
           /\ LiveRcs(b) > 0 => (heap[b].alloc /\ dealloc_count[b] = 0)
           /\ LiveRcs(b) = 0 => (~heap[b].alloc /\ dealloc_count[b] = 1)

\* the last handle of one block was just dropped while another block is
\* still held by two handles
C4_Witness ==
    /\ ret.op = "Rc::drop" /\ dealloc_count[ret.on] = 1 /\ LiveRcs(ret.on) = 0
    /\ \E b \in DOMAIN heap : LiveRcs(b) = 2 /\ heap[b].alloc

\* a borrow or borrow_mut step on c returned a guard in a slot that was empty
IssuedRef(c) ==
    /\ ret'.res = "Some"
    /\ refs[ret'.val] = NULL
    /\ refs' = [refs EXCEPT ![ret'.val] = c]
    /\ muts' = muts

IssuedRefMut(c) ==
    /\ ret'.res = "Some"
    /\ muts[ret'.val] = NULL
    /\ muts' = [muts EXCEPT ![ret'.val] = c]
    /\ refs' = refs

C6_BorrowMutTable ==
    [][\A c \in DOMAIN cells :
          (ret'.op = "borrow_mut" /\ ret'.on = c) =>
              /\ State(c) = RefState_None =>
                     IssuedRefMut(c) /\ State(c)' = RefState_Exclusive
              /\ State(c).tag \in {"Shared", "Exclusive"} =>
                     /\ ret'.res = "None"
                     /\ cells' = cells /\ refs' = refs /\ muts' = muts]_vars

\* borrow_mut was just refused on an exclusively borrowed cell
C6_Witness ==
    /\ ret.op = "borrow_mut" /\ ret.res = "None"
    /\ State(ret.on) = RefState_Exclusive /\ LiveMuts(ret.on) = 1

NoGuard(c) == LiveRefs(c) = 0 /\ LiveMuts(c) = 0

\* C7: whenever no guard of a cell is live its state is None, and the next
\* borrow() or borrow_mut() on it returns a guard.
C7_BorrowableAgain ==
    [][\A c \in DOMAIN cells :
          /\ NoGuard(c) => State(c) = RefState_None
          /\ NoGuard(c)' => State(c)' = RefState_None
          /\ (NoGuard(c) /\ ret'.on = c /\ ret'.op = "borrow") => IssuedRef(c)
          /\ (NoGuard(c) /\ ret'.on = c /\ ret'.op = "borrow_mut") =>
                 IssuedRefMut(c)]_vars

\* the last guard of a cell was just dropped, while the other cell is still
\* borrowed: the cell is in state None and borrow_mut can issue a RefMut
C7_Witness ==
    /\ ret.op \in {"Ref::drop", "RefMut::drop"}
    /\ NoGuard(ret.on) /\ State(ret.on) = RefState_None
    /\ \E d \in DOMAIN cells : d # ret.on /\ ~NoGuard(d)
    /\ borrow_mut_match(State(ret.on)).some

\* C8: dropping a Ref takes Shared(1) to None and Shared(n), n > 1, to
\* Shared(n-1); dropping a RefMut takes Exclusive to None; only the slot of
\* the dropped guard is emptied.
C8_DropTable ==
    [][\A c \in DOMAIN cells :
          /\ (ret'.op = "Ref::drop" /\ ret'.on = c) =>
                 /\ State(c) = RefState_Shared(1) => State(c)' = RefState_None
                 /\ (State(c).tag = "Shared" /\ State(c).n > 1) =>
                        State(c)' = RefState_Shared(State(c).n - 1)
                 /\ refs[ret'.val] = c
                 /\ refs' = [refs EXCEPT ![ret'.val] = NULL]
                 /\ muts' = muts
                 /\ ret'.res = "unit"
          /\ (ret'.op = "RefMut::drop" /\ ret'.on = c) =>
                 /\ State(c) = RefState_Exclusive => State(c)' = RefState_None
                 /\ muts[ret'.val] = c
                 /\ muts' = [muts EXCEPT ![ret'.val] = NULL]
                 /\ refs' = refs
                 /\ ret'.res = "unit"]_vars

\* one of two Refs of a cell was just dropped, which is now Shared(1)
C8_Witness ==
    /\ ret.op = "Ref::drop" /\ refs[ret.val] = NULL
    /\ State(ret.on) = RefState_Shared(1) /\ LiveRefs(ret.on) = 1

\* C9: dropping a handle of a block whose count is above 1 lowers the count
\* by one and leaves the block allocated, its payload unchanged and every
\* other handle in place, so the payload stays readable through them.
C9_DropKeepsBlock ==
    [][\A b \in DOMAIN heap :
          (ret'.op = "Rc::drop" /\ ret'.on = b /\ heap[b].alloc /\ Count(b) > 1) =>
              /\ Count(b)' = Count(b) - 1
              /\ heap'[b].alloc /\ heap'[b].val = heap[b].val
              /\ dealloc_count' = dealloc_count
              /\ rcs[ret'.val] = b
              /\ rcs' = [rcs EXCEPT ![ret'.val] = NULL]
              /\ LiveRcs(b)' = LiveRcs(b) - 1 /\ LiveRcs(b)' >= 1
              /\ ret'.res = "unit" /\ ~ub']_vars

\* one of three handles of a block was just dropped: the count is 2 and two
\* handles still point at the allocated block
C9_Witness ==
    /\ ret.op = "Rc::drop" /\ rcs[ret.val] = NULL
    /\ heap[ret.on].alloc /\ Count(ret.on) = 2 /\ LiveRcs(ret.on) = 2

\* C10: a block is constructed holding the value given to Rc::new, no step
\* changes the payload of a block a handle points at, a live handle always
\* points at an allocated block, and deref returns the payload of the block.
C10_DerefYieldsPayload ==
    [][/\ \A b \in DOMAIN heap : LiveRcs(b) > 0 => heap'[b].val = heap[b].val
       /\ \A h \in RcIds : rcs[h] # NULL => heap[rcs[h]].alloc
       /\ \A h \in RcIds : rcs'[h] # NULL => heap'[rcs'[h]].alloc
       /\ ret'.op = "Rc::new" =>
              /\ ret'.on \notin DOMAIN heap
              /\ heap'[ret'.on].val = ret'.arg
              /\ rcs'[ret'.val] = ret'.on
       /\ ret'.op = "Rc::deref" =>
              /\ ret'.res = "value"
              /\ ret'.val = heap[ret'.on].val
              /\ ~ub']_vars

\* deref through one of two handles of a block, after the other block was
\* deallocated
C10_Witness ==
    /\ ret.op = "Rc::deref" /\ ret.val = heap[ret.on].val
    /\ LiveRcs(ret.on) = 2 /\ heap[ret.on].alloc
    /\ \E b \in DOMAIN heap : b # ret.on /\ ~heap[b].alloc

C12_GetReturnsLastStored ==
    /\ \A p \in DOMAIN plain : Cell_get(plain[p]) = stored[p]
    /\ DOMAIN stored = DOMAIN plain
    /\ ret.op = "Cell::get" => ret.val = stored[ret.on]
    /\ ret.op \in {"Cell::set", "Cell::new"} =>
           ret.res = "unit" /\ Cell_get(plain[ret.on]) = ret.arg

\* get() just returned the value of the latest set, which differs from the
\* value another Cell holds
C12_Witness ==
    /\ ret.op = "Cell::get" /\ ret.val = 2 /\ stored[ret.on] = 2
    /\ \E q \in DOMAIN plain : q # ret.on /\ Cell_get(plain[q]) = 1

\* C13: Rc::strong_count, the deref of an Rc, of a Ref and of a RefMut, and a
\* write through a RefMut leave every reference count, every RefState and
\* the live handles and guards as they were.
C13_ObserversChangeNothing ==
    [][/\ ret'.op \in {"Rc::strong_count", "Rc::deref", "Ref::deref",
                       "RefMut::deref"} =>
              /\ heap' = heap /\ rcs' = rcs /\ dealloc_count' = dealloc_count
              /\ cells' = cells /\ refs' = refs /\ muts' = muts
       /\ ret'.op = "RefMut::deref_mut" =>
              /\ heap' = heap /\ rcs' = rcs /\ dealloc_count' = dealloc_count
              /\ refs' = refs /\ muts' = muts
              /\ DOMAIN cells' = DOMAIN cells
              /\ \A c \in DOMAIN cells : cells'[c].state = cells[c].state]_vars

\* strong_count was just read through one of two handles of a block
C13_Witness ==
    /\ ret.op = "Rc::strong_count" /\ ret.val = 2
    /\ Count(ret.on) = 2 /\ LiveRcs(ret.on) = 2

\* C20: a clone or drop of a handle of one block leaves every other block as
\* it was, and a borrow, borrow_mut or guard drop on one RefCell leaves every
\* other RefCell as it was.
C20_Independence ==
    [][/\ ret'.op \in {"Rc::clone", "Rc::drop"} =>
              \A d \in DOMAIN heap :
                  d # ret'.on =>
                      /\ heap'[d] = heap[d]
                      /\ dealloc_count'[d] = dealloc_count[d]
       /\ ret'.op \in {"borrow", "borrow_mut", "Ref::drop", "RefMut::drop"} =>
              \A d \in DOMAIN cells : d # ret'.on => cells'[d] = cells[d]]_vars

\* a Ref of one cell was just dropped while the other cell is shared by a Ref
C20_Witness ==
    /\ ret.op = "Ref::drop" /\ State(ret.on) = RefState_None
    /\ \E d \in DOMAIN cells :
           d # ret.on /\ State(d) = RefState_Shared(1) /\ LiveRefs(d) = 1

\* C14: RefCell::new stores its argument and the state None; a borrow on a
\* cell in state None, the one just constructed included, issues a Ref; the
\* value stays as constructed while no RefMut of the cell is live; and the
\* deref of a Ref returns the value of its cell.
C14_FreshCellBorrows ==
    [][/\ ret'.op = "RefCell::new" =>
              LET c == ret'.on IN
              /\ c \notin DOMAIN cells
              /\ cells'[c].val = ret'.arg
              /\ Cell_get(cells'[c].state) = RefState_None
              /\ \A r \in RefIds : refs'[r] # c
              /\ \A m \in MutIds : muts'[m] # c
       /\ (ret.op = "RefCell::new" /\ ret'.op = "borrow" /\ ret'.on = ret.on) =>
              /\ IssuedRef(ret.on)
              /\ State(ret.on)' = RefState_Shared(1)
              /\ cells'[ret.on].val = ret.arg
       /\ \A c \in DOMAIN cells :
              (ret'.op = "borrow" /\ ret'.on = c /\ State(c) = RefState_None) =>
                  IssuedRef(c)
       /\ \A c \in DOMAIN cells : LiveMuts(c) = 0 => cells'[c].val = cells[c].val
       /\ ret'.op = "Ref::deref" =>
              /\ ret'.res = "value"
              /\ \E r \in RefIds : refs[r] = ret'.on
              /\ ret'.val = cells[ret'.on].val]_vars

\* the single Ref of the only cell constructed so far was just dereferenced
\* and returned the value of the cell
C14_Witness ==
    /\ ret.op = "Ref::deref" /\ ret.val = cells[ret.on].val
    /\ State(ret.on) = RefState_Shared(1) /\ LiveRefs(ret.on) = 1
    /\ DOMAIN cells = {ret.on}

\* C15: every live Ref sees its cell in a state Shared(n) with n >= 1 and
\* every live RefMut sees its cell in state Exclusive, so no drop of a guard
\* reaches unreachable!() or panics.
C15_DropNeverUnreachable ==
    /\ \A r \in RefIds :
           refs[r] # NULL =>
               /\ State(refs[r]).tag = "Shared" /\ State(refs[r]).n >= 1
               /\ ~Ref_drop_match(State(refs[r]), overflow_checks).panic
    /\ \A m \in MutIds :
           muts[m] # NULL =>
               /\ State(muts[m]) = RefState_Exclusive
               /\ ~RefMut_drop_match(State(muts[m])).panic
    /\ ret.op \in {"Ref::drop", "RefMut::drop"} => ret.res = "unit"

\* a RefMut was just dropped without a panic while the other cell is shared
\* by two Refs
C15_Witness ==
    /\ ret.op = "RefMut::drop" /\ ret.res = "unit" /\ NoGuard(ret.on)
    /\ \E d \in DOMAIN cells : d # ret.on /\ LiveRefs(d) = 2

\* C16: Rc::clone never fails: called on a live handle of an allocated block
\* it returns a handle and the usize count afterwards is one greater than
\* before, without wrapping and without a panic.
C16_CloneNeverFails ==
    [][\A b \in DOMAIN heap :
          (ret'.op = "Rc::clone" /\ ret'.on = b /\ heap[b].alloc /\ LiveRcs(b) >= 1) =>
              /\ ret'.res = "Rc"
              /\ Cell_get(heap'[b].ref_count) = Count(b) + 1
              /\ Cell_get(heap'[b].ref_count) > Count(b)]_vars

\* the number of live guards a RefState accounts for
Encoded(st) ==
    CASE st.tag = "None" -> 0
      [] st.tag = "Shared" -> st.n
      [] st.tag = "Exclusive" -> 1

\* C17: when guards may also be leaked, the live Refs of a cell plus one for
\* a live RefMut never exceed what its RefState encodes, a RefMut is never
\* live beside a Ref, and at most one RefMut is live.
C17_LeakOnlyOvercounts ==
    \A c \in DOMAIN cells :
        /\ LiveRefs(c) + LiveMuts(c) <= Encoded(State(c))
        /\ LiveMuts(c) <= 1
        /\ LiveMuts(c) = 1 => LiveRefs(c) = 0

C19_WritesAreObserved ==
    [][/\ \A c \in DOMAIN cells :
              cells'[c].val # cells[c].val =>
                  /\ ret'.op = "RefMut::deref_mut" /\ ret'.on = c
                  /\ LiveMuts(c) = 1 /\ LiveRefs(c) = 0
       /\ ret'.op = "RefMut::deref_mut" => cells'[ret'.on].val = ret'.arg
       /\ (ret.op = "RefMut::deref_mut" /\ ret'.op = "RefMut::drop"
              /\ ret'.on = ret.on) => cells'[ret.on].val = ret.arg
       /\ ret'.op \in {"Ref::deref", "RefMut::deref"} =>
              /\ ret'.res = "value"
              /\ ret'.val = cells[ret'.on].val]_vars

\* a write through the RefMut of a cell just stored the value 2
C19_Witness ==
    /\ ret.op = "RefMut::deref_mut" /\ ret.arg = 2
    /\ cells[ret.on].val = 2 /\ LiveMuts(ret.on) = 1

=============================================================================
